---- MODULE Spec2Model ----
(***************************************************************************)
(* A state-machine model of the unisystem workshop/inventory backend:      *)
(* the accounts app (PerfilUsuario and the two post_save receivers on      *)
(* User) and the mecanico app (ElementoMecanico, MovimientoStock,          *)
(* OrdenTrabajo, ElementoUsadoOrden, AgendaDomicilio).                     *)
(*                                                                         *)
(* The tables are sets of rows.  Every write is modelled twice, as the     *)
(* object-relational layer offers it: Model.save() / objects.create(),     *)
(* which writes the row and is checked only by the database (unique and    *)
(* foreign-key constraints), and full_clean() followed by save(), which    *)
(* first runs the validators and choices declared on the fields (what a    *)
(* model form does).  Model.delete() follows each relation's on_delete.    *)
(*                                                                         *)
(* Nullable values are sequences of length at most one: << >> is NULL,     *)
(* <<v>> is the value v.  Decimal amounts (two decimal places) are         *)
(* integers counting hundredths.                                           *)
(***************************************************************************)
EXTENDS Integers, Sequences, FiniteSets, TLC

VARIABLES
    usuarios,      \* auth_user: the primary keys of the stored User rows
    sigUsuario,    \* auth_user's next auto-increment primary key
    perfiles,      \* accounts_perfilusuario: the stored PerfilUsuario rows
    sigPerfil,     \* accounts_perfilusuario's next auto-increment primary key
    inst,          \* the User objects in memory, each with its cached perfilusuario
    elementos,     \* mecanico_elementomecanico: the stored ElementoMecanico rows
    movimientos,   \* mecanico_movimientostock: the stored MovimientoStock rows
    ordenes,       \* mecanico_ordentrabajo: the stored OrdenTrabajo rows
    usados,        \* mecanico_elementousadoorden: the stored ElementoUsadoOrden rows
    agenda,        \* mecanico_agendadomicilio: the stored AgendaDomicilio rows
    sig,           \* the next auto-increment primary key of each mecanico table
    caller,        \* the callers recording stock movements: position and locals
    obs,           \* history: per movement, the item's quantity before and after it
    ultima         \* the last operation: its name, its arguments, its outcome

cuentas == <<usuarios, sigUsuario, perfiles, sigPerfil, inst>>
taller == <<elementos, movimientos, ordenes, usados, agenda, sig>>
carrera == <<caller, obs>>
vars == <<cuentas, taller, carrera, ultima>>

\* ------------------------------------------------------------------ bounds

MaxUsuarios == 4      \* User rows ever inserted
NInst == 2            \* User objects held in memory at once
NCallers == 2         \* callers recording stock movements at once
MaxFilas == 2         \* rows ever inserted into one table of mecanico
MaxCantidad == 2      \* the largest quantity, threshold or amount given

Insts == 1..NInst

\* ------------------------------------------------------------- outcomes

OK == "ok"
ValidationError == "ValidationError"
IntegrityError == "IntegrityError"
ProtectedError == "ProtectedError"

Nada == [op |-> "init", res |-> OK]

\* ---------------------------------------------------- accounts/models.py

ROL_CHOICES == {"administrador", "trabajador", "tecnico"}

\* The field defaults of PerfilUsuario: a row built from user alone.
PerfilUsuario(pk, user) ==
    [id |-> pk, user |-> user, rol |-> "trabajador", activo |-> TRUE]

PerfilesDe(P, u) == {p \in P : p.user = u}

\* A PerfilUsuario's save(): UPDATE the row of its primary key, INSERT it when
\* no such row is stored.  user is a OneToOneField: the database refuses a
\* second row for the same user, and a row whose user is not stored.
\* The result is <<the table afterwards, the outcome>>.
GuardarPerfil(P, U, p) ==
    LET otros == {q \in P : q.id # p.id}
    IN  IF p.user \notin U \/ \E q \in otros : q.user = p.user
        THEN <<P, IntegrityError>>
        ELSE <<otros \cup {p}, OK>>

\* crear_perfil_usuario with its test of created inverted.
crear_perfil_si_no_creado(P, k, U, u, cache, created) ==
    IF ~ created
    THEN LET p == PerfilUsuario(k, u)
             r == GuardarPerfil(P, U, p)
         IN  IF r[2] = OK THEN <<r[1], k + 1, <<p>>, OK>>
                          ELSE <<P, k, <<p>>, r[2]>>
    ELSE <<P, k, cache, OK>>

\* crear_perfil_usuario(sender, instance, created): on a creating save,
\* PerfilUsuario.objects.create(user=instance).  Building the profile with
\* user=instance also caches it on the instance as instance.perfilusuario.
\* The result is <<the table, the next key, the instance's cache, the outcome>>.
crear_perfil_usuario(P, k, U, u, cache, created) ==
    IF created
    THEN LET p == PerfilUsuario(k, u)
             r == GuardarPerfil(P, U, p)
         IN  IF r[2] = OK THEN <<r[1], k + 1, <<p>>, OK>>
                          ELSE <<P, k, <<p>>, r[2]>>
    ELSE <<P, k, cache, OK>>

\* instance.perfilusuario: the cached object, else the stored row of this
\* user, else RelatedObjectDoesNotExist (<< >>: hasattr answers False).
perfilusuario(P, u, cache) ==
    IF cache # << >> THEN cache
    ELSE IF PerfilesDe(P, u) # {}
         THEN <<CHOOSE p \in PerfilesDe(P, u) : TRUE>>
         ELSE << >>

\* guardar_perfil_usuario(sender, instance): when the instance has a
\* perfilusuario, save it.  The result is <<the table, the cache, the outcome>>.
guardar_perfil_usuario(P, U, u, cache) ==
    LET c == perfilusuario(P, u, cache)
    IN  IF c # << >>
        THEN LET r == GuardarPerfil(P, U, c[1]) IN <<r[1], c, r[2]>>
        ELSE <<P, c, OK>>

\* post_save of User: the receivers run in the order they were connected,
\* and the first exception ends the save.
\* The result is <<the table, the next key, the cache, the outcome>>.
post_save_User(P, k, U, u, cache, created) ==
    LET a == crear_perfil_usuario(P, k, U, u, cache, created)
    IN  IF a[4] # OK THEN a
        ELSE LET b == guardar_perfil_usuario(a[1], U, u, a[3])
             IN  <<b[1], a[2], b[2], b[3]>>

\* User.objects.create(...) held in memory slot i: a creating save.
CrearUsuario(i) ==
    /\ sigUsuario <= MaxUsuarios
    /\ LET u == sigUsuario
           U == usuarios \cup {u}
           s == post_save_User(perfiles, sigPerfil, U, u, << >>, TRUE)
       IN  /\ usuarios' = U
           /\ sigUsuario' = sigUsuario + 1
           /\ perfiles' = s[1]
           /\ sigPerfil' = s[2]
           /\ inst' = [inst EXCEPT ![i] = [pk |-> <<u>>, perfilusuario |-> s[3]]]
           /\ ultima' = [op |-> "CrearUsuario", user |-> u, res |-> s[4]]
    /\ UNCHANGED <<taller, carrera>>

\* User.objects.get(pk=u) into memory slot i: a fresh object, nothing cached.
CargarUsuario(i, u) ==
    /\ u \in usuarios
    /\ inst' = [inst EXCEPT ![i] = [pk |-> <<u>>, perfilusuario |-> << >>]]
    /\ ultima' = [op |-> "CargarUsuario", user |-> u, res |-> OK]
    /\ UNCHANGED <<usuarios, sigUsuario, perfiles, sigPerfil, taller, carrera>>

\* save() of the User object in slot i, which has a primary key: an UPDATE
\* when its row is stored (created = False), an INSERT of that key when it
\* is not (created = True).
GuardarUsuario(i) ==
    /\ inst[i].pk # << >>
    /\ LET u == inst[i].pk[1]
           created == u \notin usuarios
           U == usuarios \cup {u}
           s == post_save_User(perfiles, sigPerfil, U, u,
                               inst[i].perfilusuario, created)
       IN  /\ usuarios' = U
           /\ perfiles' = s[1]
           /\ sigPerfil' = s[2]
           /\ inst' = [inst EXCEPT ![i].perfilusuario = s[3]]
           /\ ultima' = [op |-> "GuardarUsuario", user |-> u, res |-> s[4]]
    /\ UNCHANGED <<sigUsuario, taller, carrera>>

\* ---------------------------------------------------- mecanico/models.py

\* An object with some of its fields assigned: e with the fields of d set.
Con(e, d) == [f \in DOMAIN e |-> IF f \in DOMAIN d THEN d[f] ELSE e[f]]

\* A model's save(): UPDATE the row of the object's primary key, INSERT the
\* object when no such row is stored.
Escrita(T, x) == {q \in T : q.id # x.id} \cup {x}

Fila(T, pk) == CHOOSE q \in T : q.id = pk
Ids(T) == {q.id : q \in T}

\* The quantity stored for item pk (0 when the item is not stored).
Cantidad(E, pk) == IF pk \in Ids(E) THEN Fila(E, pk).cantidad_actual ELSE 0

\* ElementoMecanico(codigo=..., usuario_creacion=...): the field defaults.
ElementoMecanico(pk, codigo, usuario) ==
    [id |-> pk, codigo |-> codigo, cantidad_actual |-> 0, stock_minimo |-> 5,
     precio_compra |-> << >>, precio_venta |-> << >>,
     usuario_creacion |-> usuario]

\* Python's truth value of a nullable Decimal: None and Decimal(0) are false.
Verdadero(d) == d # << >> /\ d[1] # 0

\* stock_bajo with a strict comparison.
stock_bajo_estricto(e) == e.cantidad_actual < e.stock_minimo

\* ElementoMecanico.stock_bajo
stock_bajo(e) == e.cantidad_actual <= e.stock_minimo

\* valor_total_stock multiplying by the selling price.
valor_total_stock_venta(e) ==
    IF Verdadero(e.precio_venta)
    THEN e.cantidad_actual * e.precio_venta[1]
    ELSE 0

\* ElementoMecanico.valor_total_stock
valor_total_stock(e) ==
    IF Verdadero(e.precio_compra)
    THEN e.cantidad_actual * e.precio_compra[1]
    ELSE 0

\* full_clean_Elemento without the validator of cantidad_actual.
full_clean_Elemento_sin_minimo(E, U, e) ==
    /\ e.stock_minimo >= 0
    /\ ~ \E q \in E : q.id # e.id /\ q.codigo = e.codigo
    /\ e.usuario_creacion \in U

\* ElementoMecanico.full_clean(): MinValueValidator(0) on cantidad_actual and
\* on stock_minimo, the unique codigo, the stored usuario_creacion.
full_clean_Elemento(E, U, e) ==
    /\ e.cantidad_actual >= 0
    /\ e.stock_minimo >= 0
    /\ ~ \E q \in E : q.id # e.id /\ q.codigo = e.codigo
    /\ e.usuario_creacion \in U

\* What the database checks of an ElementoMecanico row: codigo is unique and
\* usuario_creacion is a stored User.
Admite_Elemento(E, U, e) ==
    /\ ~ \E q \in E : q.id # e.id /\ q.codigo = e.codigo
    /\ e.usuario_creacion \in U

\* ElementoMecanico.save().  The result is <<the table, the outcome>>.
GuardarElemento(E, U, e) ==
    IF Admite_Elemento(E, U, e) THEN <<Escrita(E, e), OK>>
                                ELSE <<E, IntegrityError>>

\* The outcome and the table of saving e, with or without full_clean() first.
SalvarElemento(validar, E, U, e) ==
    IF validar /\ ~ full_clean_Elemento(E, U, e)
    THEN <<E, ValidationError>>
    ELSE GuardarElemento(E, U, e)

\* A new ElementoMecanico with the fields d assigned, saved (validar: after
\* full_clean()).
CrearElemento(validar, u, d) ==
    /\ sig.elemento <= MaxFilas
    /\ LET e == Con(ElementoMecanico(sig.elemento, d.codigo, u), d)
           r == SalvarElemento(validar, elementos, usuarios, e)
       IN  /\ elementos' = r[1]
           /\ sig' = IF r[2] = OK THEN [sig EXCEPT !.elemento = @ + 1] ELSE sig
           /\ ultima' = [op |-> "CrearElemento", validar |-> validar,
                         obj |-> e, res |-> r[2]]
    /\ UNCHANGED <<cuentas, movimientos, ordenes, usados, agenda, carrera>>

\* The stored ElementoMecanico pk, fetched, the fields d assigned, saved.
ModificarElemento(validar, pk, d) ==
    /\ pk \in Ids(elementos)
    /\ LET e == Con(Fila(elementos, pk), d)
           r == SalvarElemento(validar, elementos, usuarios, e)
       IN  /\ elementos' = r[1]
           /\ ultima' = [op |-> "ModificarElemento", validar |-> validar,
                         obj |-> e, res |-> r[2]]
    /\ UNCHANGED <<cuentas, movimientos, ordenes, usados, agenda, sig, carrera>>

\* The stored ElementoMecanico pk, fetched, and its two properties read.
ConsultarElemento(pk) ==
    /\ pk \in Ids(elementos)
    /\ LET e == Fila(elementos, pk)
       IN  ultima' = [op |-> "ConsultarElemento", obj |-> e, res |-> OK,
                      stock_bajo |-> stock_bajo(e),
                      valor_total_stock |-> valor_total_stock(e)]
    /\ UNCHANGED <<cuentas, taller, carrera>>

TIPO_MOVIMIENTO_CHOICES == {"entrada", "salida", "ajuste", "devolucion"}

\* A MovimientoStock object: every field is the caller's.
MovimientoStock(pk, elemento, tipo, cantidad, anterior, nuevo, usuario) ==
    [id |-> pk, elemento |-> elemento, tipo_movimiento |-> tipo,
     cantidad |-> cantidad, stock_anterior |-> anterior,
     stock_nuevo |-> nuevo, usuario |-> usuario]

\* MovimientoStock.full_clean(): the choices of tipo_movimiento,
\* MinValueValidator(1) on cantidad, the stored elemento and usuario.
full_clean_Movimiento(E, U, m) ==
    /\ m.tipo_movimiento \in TIPO_MOVIMIENTO_CHOICES
    /\ m.cantidad >= 1
    /\ m.elemento \in Ids(E)
    /\ m.usuario \in U

\* What the database checks of a MovimientoStock row: its foreign keys.
Admite_Movimiento(E, U, m) ==
    /\ m.elemento \in Ids(E)
    /\ m.usuario \in U

\* GuardarMovimiento refusing a row whose stock_nuevo is not the quantity
\* stored for its item.
GuardarMovimiento_coherente(M, E, U, m) ==
    IF Admite_Movimiento(E, U, m) /\ m.stock_nuevo = Cantidad(E, m.elemento)
    THEN <<Escrita(M, m), OK>>
    ELSE <<M, IntegrityError>>

\* MovimientoStock.save().  The result is <<the table, the outcome>>.
GuardarMovimiento(M, E, U, m) ==
    IF Admite_Movimiento(E, U, m) THEN <<Escrita(M, m), OK>>
                                  ELSE <<M, IntegrityError>>

SalvarMovimiento(validar, M, E, U, m) ==
    IF validar /\ ~ full_clean_Movimiento(E, U, m)
    THEN <<M, ValidationError>>
    ELSE GuardarMovimiento(M, E, U, m)

\* A new MovimientoStock saved with the values given (validar: after
\* full_clean()); the item is not touched.
CrearMovimiento(validar, u, el, tipo, cantidad, anterior, nuevo) ==
    /\ sig.movimiento <= MaxFilas
    /\ LET m == MovimientoStock(sig.movimiento, el, tipo, cantidad,
                                anterior, nuevo, u)
           r == SalvarMovimiento(validar, movimientos, elementos, usuarios, m)
       IN  /\ movimientos' = r[1]
           /\ sig' = IF r[2] = OK THEN [sig EXCEPT !.movimiento = @ + 1] ELSE sig
           /\ obs' = IF r[2] = OK
                     THEN obs \cup {[mov |-> m.id,
                                     antes |-> Cantidad(elementos, el),
                                     despues |-> Cantidad(elementos, el)]}
                     ELSE obs
           /\ ultima' = [op |-> "CrearMovimiento", validar |-> validar,
                         obj |-> m, res |-> r[2]]
    /\ UNCHANGED <<cuentas, elementos, ordenes, usados, agenda, caller>>

ESTADO_CHOICES ==
    {"ingreso", "presupuesto", "confirmacion", "en_proceso", "terminado",
     "entregado", "cancelado"}

\* OrdenTrabajo(numero_orden=..., usuario_creacion=...): the field defaults.
OrdenTrabajo(pk, numero, usuario) ==
    [id |-> pk, numero_orden |-> numero, estado |-> "ingreso",
     usuario_creacion |-> usuario]

\* The order of the workflow as ESTADO_CHOICES lists it: the state after
\* each state.
Siguiente(e) ==
    CASE e = "ingreso" -> "presupuesto"
      [] e = "presupuesto" -> "confirmacion"
      [] e = "confirmacion" -> "en_proceso"
      [] e = "en_proceso" -> "terminado"
      [] e = "terminado" -> "entregado"
      [] OTHER -> e

Terminal(e) == e \in {"entregado", "cancelado"}

\* full_clean_Orden without the choices of estado.
full_clean_Orden_sin_choices(O, U, o) ==
    /\ ~ \E q \in O : q.id # o.id /\ q.numero_orden = o.numero_orden
    /\ o.usuario_creacion \in U

\* full_clean_Orden that also holds estado to the order of the workflow.
full_clean_Orden_maquina(O, U, o) ==
    /\ o.estado \in ESTADO_CHOICES
    /\ ~ \E q \in O : q.id # o.id /\ q.numero_orden = o.numero_orden
    /\ o.usuario_creacion \in U
    /\ \A q \in O :
          (q.id = o.id /\ q.estado # o.estado) =>
              /\ ~ Terminal(q.estado)
              /\ o.estado \in {Siguiente(q.estado), "cancelado"}

\* OrdenTrabajo.full_clean(): the choices of estado, the unique numero_orden,
\* the stored usuario_creacion.
full_clean_Orden(O, U, o) ==
    /\ o.estado \in ESTADO_CHOICES
    /\ ~ \E q \in O : q.id # o.id /\ q.numero_orden = o.numero_orden
    /\ o.usuario_creacion \in U

\* What the database checks of an OrdenTrabajo row: numero_orden is unique
\* and usuario_creacion is a stored User.
Admite_Orden(O, U, o) ==
    /\ ~ \E q \in O : q.id # o.id /\ q.numero_orden = o.numero_orden
    /\ o.usuario_creacion \in U

\* OrdenTrabajo.save().  The result is <<the table, the outcome>>.
GuardarOrden(O, U, o) ==
    IF Admite_Orden(O, U, o) THEN <<Escrita(O, o), OK>>
                             ELSE <<O, IntegrityError>>

SalvarOrden(validar, O, U, o) ==
    IF validar /\ ~ full_clean_Orden(O, U, o)
    THEN <<O, ValidationError>>
    ELSE GuardarOrden(O, U, o)

\* A new OrdenTrabajo with the fields d assigned, saved.
CrearOrden(validar, u, d) ==
    /\ sig.orden <= MaxFilas
    /\ LET o == Con(OrdenTrabajo(sig.orden, d.numero_orden, u), d)
           r == SalvarOrden(validar, ordenes, usuarios, o)
       IN  /\ ordenes' = r[1]
           /\ sig' = IF r[2] = OK THEN [sig EXCEPT !.orden = @ + 1] ELSE sig
           /\ ultima' = [op |-> "CrearOrden", validar |-> validar,
                         dado |-> d, obj |-> o, res |-> r[2]]
    /\ UNCHANGED <<cuentas, elementos, movimientos, usados, agenda, carrera>>

\* The stored OrdenTrabajo pk, fetched, the fields d assigned, saved.
ModificarOrden(validar, pk, d) ==
    /\ pk \in Ids(ordenes)
    /\ LET o == Con(Fila(ordenes, pk), d)
           r == SalvarOrden(validar, ordenes, usuarios, o)
       IN  /\ ordenes' = r[1]
           /\ ultima' = [op |-> "ModificarOrden", validar |-> validar,
                         antes |-> Fila(ordenes, pk), obj |-> o, res |-> r[2]]
    /\ UNCHANGED <<cuentas, elementos, movimientos, usados, agenda, sig, carrera>>

\* An ElementoUsadoOrden object: every field is the caller's.
ElementoUsadoOrden(pk, orden, elemento, cantidad, precio, usuario) ==
    [id |-> pk, orden |-> orden, elemento |-> elemento,
     cantidad_usada |-> cantidad, precio_unitario |-> precio,
     usuario |-> usuario]

\* subtotal priced at the item's current precio_venta.
subtotal_precio_venta(l) ==
    LET pv == IF l.elemento \in Ids(elementos)
              THEN Fila(elementos, l.elemento).precio_venta ELSE << >>
    IN  l.cantidad_usada * (IF pv # << >> THEN pv[1] ELSE 0)

\* ElementoUsadoOrden.subtotal
subtotal(l) == l.cantidad_usada * l.precio_unitario

\* ElementoUsadoOrden.full_clean(): MinValueValidator(1) on cantidad_usada,
\* the stored orden, elemento and usuario.
full_clean_Usado(O, E, U, l) ==
    /\ l.cantidad_usada >= 1
    /\ l.orden \in Ids(O)
    /\ l.elemento \in Ids(E)
    /\ l.usuario \in U

\* What the database checks of an ElementoUsadoOrden row: its foreign keys.
Admite_Usado(O, E, U, l) ==
    /\ l.orden \in Ids(O)
    /\ l.elemento \in Ids(E)
    /\ l.usuario \in U

\* ElementoUsadoOrden.save().  The result is <<the table, the outcome>>.
GuardarUsado(L, O, E, U, l) ==
    IF Admite_Usado(O, E, U, l) THEN <<Escrita(L, l), OK>>
                                ELSE <<L, IntegrityError>>

SalvarUsado(validar, L, O, E, U, l) ==
    IF validar /\ ~ full_clean_Usado(O, E, U, l)
    THEN <<L, ValidationError>>
    ELSE GuardarUsado(L, O, E, U, l)

\* A new ElementoUsadoOrden saved with the values given.
CrearUsado(validar, u, orden, el, cantidad, precio) ==
    /\ sig.usado <= MaxFilas
    /\ LET l == ElementoUsadoOrden(sig.usado, orden, el, cantidad, precio, u)
           r == SalvarUsado(validar, usados, ordenes, elementos, usuarios, l)
       IN  /\ usados' = r[1]
           /\ sig' = IF r[2] = OK THEN [sig EXCEPT !.usado = @ + 1] ELSE sig
           /\ ultima' = [op |-> "CrearUsado", validar |-> validar,
                         obj |-> l, res |-> r[2]]
    /\ UNCHANGED <<cuentas, elementos, movimientos, ordenes, agenda, carrera>>

\* The stored ElementoUsadoOrden pk, fetched, and its subtotal read.
ConsultarUsado(pk) ==
    /\ pk \in Ids(usados)
    /\ LET l == Fila(usados, pk)
       IN  ultima' = [op |-> "ConsultarUsado", obj |-> l, res |-> OK,
                      subtotal |-> subtotal(l)]
    /\ UNCHANGED <<cuentas, taller, carrera>>

\* An AgendaDomicilio object; orden_generada is nullable.
AgendaDomicilio(pk, orden, usuario) ==
    [id |-> pk, orden_generada |-> orden, usuario_creacion |-> usuario]

\* What the database checks of an AgendaDomicilio row (and full_clean()
\* before it): orden_generada is NULL or a stored OrdenTrabajo no other
\* visit has (a OneToOneField), usuario_creacion is a stored User.
Admite_Agenda(A, O, U, a) ==
    /\ a.orden_generada # << >> =>
          /\ a.orden_generada[1] \in Ids(O)
          /\ ~ \E q \in A : q.id # a.id /\ q.orden_generada = a.orden_generada
    /\ a.usuario_creacion \in U

\* AgendaDomicilio.save().  The result is <<the table, the outcome>>.
GuardarAgenda(A, O, U, a) ==
    IF Admite_Agenda(A, O, U, a) THEN <<Escrita(A, a), OK>>
                                 ELSE <<A, IntegrityError>>

\* A new AgendaDomicilio saved with orden_generada as given.
CrearAgenda(u, orden) ==
    /\ sig.agenda <= MaxFilas
    /\ LET a == AgendaDomicilio(sig.agenda, orden, u)
           r == GuardarAgenda(agenda, ordenes, usuarios, a)
       IN  /\ agenda' = r[1]
           /\ sig' = IF r[2] = OK THEN [sig EXCEPT !.agenda = @ + 1] ELSE sig
           /\ ultima' = [op |-> "CrearAgenda", obj |-> a, res |-> r[2]]
    /\ UNCHANGED <<cuentas, elementos, movimientos, ordenes, usados, carrera>>

\* The stored AgendaDomicilio pk, fetched, orden_generada assigned, saved.
ModificarAgenda(pk, orden) ==
    /\ pk \in Ids(agenda)
    /\ LET a == Con(Fila(agenda, pk), [orden_generada |-> orden])
           r == GuardarAgenda(agenda, ordenes, usuarios, a)
       IN  /\ agenda' = r[1]
           /\ ultima' = [op |-> "ModificarAgenda", obj |-> a, res |-> r[2]]
    /\ UNCHANGED <<cuentas, elementos, movimientos, ordenes, usados, sig, carrera>>

\* ------------------------------------------------------------- delete()

\* The rows that keep User u from being deleted: every relation to User in
\* mecanico/models.py is on_delete=PROTECT.
ProtegenUsuario(u) ==
    \/ \E e \in elementos : e.usuario_creacion = u
    \/ \E m \in movimientos : m.usuario = u
    \/ \E o \in ordenes : o.usuario_creacion = u
    \/ \E l \in usados : l.usuario = u
    \/ \E a \in agenda : a.usuario_creacion = u

\* User.delete(): PerfilUsuario.user is on_delete=CASCADE.
BorrarUsuario(u) ==
    /\ u \in usuarios
    /\ IF ProtegenUsuario(u)
       THEN /\ ultima' = [op |-> "BorrarUsuario", pk |-> u, res |-> ProtectedError]
            /\ UNCHANGED <<usuarios, perfiles>>
       ELSE /\ usuarios' = usuarios \ {u}
            /\ perfiles' = {p \in perfiles : p.user # u}
            /\ ultima' = [op |-> "BorrarUsuario", pk |-> u, res |-> OK]
    /\ UNCHANGED <<sigUsuario, sigPerfil, inst, taller, carrera>>

\* ElementoUsadoOrden.elemento with on_delete=CASCADE left to the database,
\* which has no such rule: nothing keeps the item.
ProtegenElemento_nada(pk) == FALSE

\* The rows that keep ElementoMecanico pk from being deleted:
\* ElementoUsadoOrden.elemento is on_delete=PROTECT.
ProtegenElemento(pk) == \E l \in usados : l.elemento = pk

\* ElementoMecanico.delete(): MovimientoStock.elemento is on_delete=CASCADE.
BorrarElemento(pk) ==
    /\ pk \in Ids(elementos)
    /\ IF ProtegenElemento(pk)
       THEN /\ ultima' = [op |-> "BorrarElemento", pk |-> pk, res |-> ProtectedError]
            /\ UNCHANGED <<elementos, movimientos>>
       ELSE /\ elementos' = {e \in elementos : e.id # pk}
            /\ movimientos' = {m \in movimientos : m.elemento # pk}
            /\ ultima' = [op |-> "BorrarElemento", pk |-> pk, res |-> OK]
    /\ UNCHANGED <<cuentas, ordenes, usados, agenda, sig, carrera>>

\* AgendaDomicilio.orden_generada is on_delete=SET_NULL.
SinOrden(a, pk) ==
    IF a.orden_generada = <<pk>> THEN Con(a, [orden_generada |-> << >>]) ELSE a

\* OrdenTrabajo.delete(): ElementoUsadoOrden.orden is on_delete=CASCADE.
BorrarOrden(pk) ==
    /\ pk \in Ids(ordenes)
    /\ ordenes' = {o \in ordenes : o.id # pk}
    /\ usados' = {l \in usados : l.orden # pk}
    /\ agenda' = {SinOrden(a, pk) : a \in agenda}
    /\ ultima' = [op |-> "BorrarOrden", pk |-> pk, res |-> OK]
    /\ UNCHANGED <<cuentas, elementos, movimientos, sig, carrera>>

\* ------------------------------------------- a caller recording a movement

\* The callers of MovimientoStock and ElementoMecanico are not among the
\* repository's files; a caller is modelled on the specification's words:
\* it reads the item, computes stock_nuevo, saves the item and records the
\* MovimientoStock, each a step of its own, with no lock and no transaction.

Callers == 1..NCallers

Libre == [pc |-> "libre", obj |-> << >>, delta |-> 0, antes |-> 0]

\* ElementoMecanico.objects.get(pk=pk), and the change d to apply: an
\* entrada of d, or a salida of -d that the quantity read covers.
Leer(c, pk, d) ==
    /\ caller[c].pc = "libre"
    /\ pk \in Ids(elementos)
    /\ Cantidad(elementos, pk) + d >= 0
    /\ sig.movimiento + Cardinality({k \in Callers : caller[k].pc # "libre"})
          <= MaxFilas
    /\ caller' = [caller EXCEPT ![c] =
                    [pc |-> "leido", obj |-> <<Fila(elementos, pk)>>,
                     delta |-> d, antes |-> 0]]
    /\ ultima' = [op |-> "Leer", caller |-> c, res |-> OK]
    /\ UNCHANGED <<cuentas, taller, obs>>

\* elemento.cantidad_actual = stock_nuevo; elemento.save()
Escribir(c) ==
    /\ caller[c].pc = "leido"
    /\ LET e == caller[c].obj[1]
           n == Con(e, [cantidad_actual |-> e.cantidad_actual + caller[c].delta])
           r == GuardarElemento(elementos, usuarios, n)
       IN  /\ elementos' = r[1]
           /\ caller' = IF r[2] = OK
                        THEN [caller EXCEPT ![c].pc = "escrito",
                                            ![c].antes = Cantidad(elementos, e.id)]
                        ELSE [caller EXCEPT ![c] = Libre]
           /\ ultima' = [op |-> "Escribir", caller |-> c, res |-> r[2]]
    /\ UNCHANGED <<cuentas, movimientos, ordenes, usados, agenda, sig, obs>>

\* MovimientoStock.objects.create(elemento=..., stock_anterior=...,
\* stock_nuevo=..., ...)
Registrar(c) ==
    /\ caller[c].pc = "escrito"
    /\ LET e == caller[c].obj[1]
           d == caller[c].delta
           m == MovimientoStock(sig.movimiento, e.id,
                                IF d > 0 THEN "entrada" ELSE "salida",
                                IF d > 0 THEN d ELSE -d,
                                e.cantidad_actual, e.cantidad_actual + d,
                                e.usuario_creacion)
           r == GuardarMovimiento(movimientos, elementos, usuarios, m)
       IN  /\ movimientos' = r[1]
           /\ sig' = IF r[2] = OK THEN [sig EXCEPT !.movimiento = @ + 1] ELSE sig
           /\ obs' = IF r[2] = OK
                     THEN obs \cup {[mov |-> m.id, antes |-> caller[c].antes,
                                     despues |-> Cantidad(elementos, e.id)]}
                     ELSE obs
           /\ caller' = [caller EXCEPT ![c] = Libre]
           /\ ultima' = [op |-> "Registrar", caller |-> c, res |-> r[2]]
    /\ UNCHANGED <<cuentas, elementos, ordenes, usados, agenda>>

\* --------------------------------------------------------- specifications

Init ==
    /\ usuarios = {}
    /\ sigUsuario = 1
    /\ perfiles = {}
    /\ sigPerfil = 1
    /\ inst = [i \in Insts |-> [pk |-> << >>, perfilusuario |-> << >>]]
    /\ elementos = {}
    /\ movimientos = {}
    /\ ordenes = {}
    /\ usados = {}
    /\ agenda = {}
    /\ sig = [elemento |-> 1, movimiento |-> 1, orden |-> 1, usado |-> 1,
              agenda |-> 1]
    /\ caller = [c \in Callers |-> Libre]
    /\ obs = {}
    /\ ultima = Nada

\* Only saves of User: creating saves and updating saves, through any object.
NextAltas ==
    \/ \E i \in Insts : CrearUsuario(i)
    \/ \E i \in Insts : \E u \in 1..MaxUsuarios : CargarUsuario(i, u)
    \/ \E i \in Insts : GuardarUsuario(i)

SpecAltas == Init /\ [][NextAltas]_vars

\* The workshop with one User, created earlier, and nothing in memory.
InitTaller ==
    /\ usuarios = {1}
    /\ sigUsuario = 2
    /\ perfiles = {PerfilUsuario(1, 1)}
    /\ sigPerfil = 2
    /\ inst = [i \in Insts |-> [pk |-> << >>, perfilusuario |-> << >>]]
    /\ elementos = {}
    /\ movimientos = {}
    /\ ordenes = {}
    /\ usados = {}
    /\ agenda = {}
    /\ sig = [elemento |-> 1, movimiento |-> 1, orden |-> 1, usado |-> 1,
              agenda |-> 1]
    /\ caller = [c \in Callers |-> Libre]
    /\ obs = {}
    /\ ultima = Nada

\* The inputs.
Codigos == {"A", "B"}
Cantidades == -1..MaxCantidad
Minimos == Cantidades \cup {5}
Importes == 0..MaxCantidad
Precios == {<< >>} \cup {<<x>> : x \in Importes}
Claves == 1..MaxFilas

\* One item, its quantity and its threshold.
NextStock ==
    \/ \E v \in BOOLEAN : CrearElemento(v, 1, [codigo |-> "A"])
    \/ \E v \in BOOLEAN, c \in Cantidades, m \in Minimos :
          ModificarElemento(v, 1, [cantidad_actual |-> c, stock_minimo |-> m])
    \/ ConsultarElemento(1)

SpecStock == InitTaller /\ [][NextStock]_vars

\* One item, its quantity and its prices.
NextValor ==
    \/ \E v \in BOOLEAN : CrearElemento(v, 1, [codigo |-> "A"])
    \/ \E v \in BOOLEAN, c \in Cantidades, pc \in Precios, pv \in Precios :
          ModificarElemento(v, 1, [cantidad_actual |-> c, precio_compra |-> pc,
                                   precio_venta |-> pv])
    \/ ConsultarElemento(1)

SpecValor == InitTaller /\ [][NextValor]_vars

\* One order with one line, and the item the line refers to changing
\* under it.
NextSubtotal ==
    \/ CrearElemento(TRUE, 1, [codigo |-> "A"])
    \/ CrearOrden(TRUE, 1, [numero_orden |-> "A"])
    \/ \E v \in BOOLEAN, c \in Cantidades, p \in Importes :
          usados = {} /\ CrearUsado(v, 1, 1, 1, c, p)
    \/ \E c \in {0, 1}, pv \in {<< >>, <<1>>} :
          ModificarElemento(TRUE, 1, [cantidad_actual |-> c, precio_venta |-> pv])
    \/ ConsultarUsado(1)

SpecSubtotal == InitTaller /\ [][NextSubtotal]_vars

\* The values given for estado: the seven choices and one that is none.
Estados == ESTADO_CHOICES \cup {"otro"}

\* Work orders and their estado.
NextOrden ==
    \/ \E v \in BOOLEAN, n \in Codigos : CrearOrden(v, 1, [numero_orden |-> n])
    \/ \E v \in BOOLEAN, n \in Codigos, e \in Estados :
          CrearOrden(v, 1, [numero_orden |-> n, estado |-> e])
    \/ \E v \in BOOLEAN, pk \in Claves, e \in Estados :
          ModificarOrden(v, pk, [estado |-> e])

SpecOrden == InitTaller /\ [][NextOrden]_vars

\* Work orders and their estado, every save after full_clean().
NextOrdenForm ==
    \/ \E n \in Codigos : CrearOrden(TRUE, 1, [numero_orden |-> n])
    \/ \E pk \in Claves, e \in Estados : ModificarOrden(TRUE, pk, [estado |-> e])

SpecOrdenForm == InitTaller /\ [][NextOrdenForm]_vars

\* The quantities and thresholds given for an item: valid, and each invalid.
Existencias == {<<-1, 0>>, <<0, -1>>, <<MaxCantidad, 1>>}

\* Items, an order, one movement and one line, given valid and invalid values.
NextValidacion ==
    \/ \E v \in BOOLEAN, c \in Codigos : CrearElemento(v, 1, [codigo |-> c])
    \/ \E v \in BOOLEAN, pk \in Claves, x \in Existencias :
          ModificarElemento(v, pk, [cantidad_actual |-> x[1],
                                    stock_minimo |-> x[2]])
    \/ \E v \in BOOLEAN : CrearOrden(v, 1, [numero_orden |-> "A"])
    \/ \E v \in BOOLEAN, c \in {0, 1} :
          movimientos = {} /\ CrearMovimiento(v, 1, 1, "entrada", c, 0, 0)
    \/ \E v \in BOOLEAN, c \in {0, 1} :
          usados = {} /\ CrearUsado(v, 1, 1, 1, c, 0)

SpecValidacion == InitTaller /\ [][NextValidacion]_vars

\* The changes of quantity the callers apply.
Deltas == {-1} \cup (1..MaxCantidad)

\* One item and the callers recording movements of it.
NextCarrera ==
    \/ CrearElemento(TRUE, 1, [codigo |-> "A"])
    \/ \E c \in Callers, d \in Deltas : Leer(c, 1, d)
    \/ \E c \in Callers : Escribir(c)
    \/ \E c \in Callers : Registrar(c)

SpecCarrera == InitTaller /\ [][NextCarrera]_vars

\* Users, an item, an order, a movement, a line and visits that generated
\* an order, and deletions.
NextBorrado ==
    \/ sigUsuario <= MaxFilas /\ CrearUsuario(1)
    \/ \E u \in Claves : BorrarUsuario(u)
    \/ \E u \in Claves : CrearElemento(TRUE, u, [codigo |-> "A"])
    \/ \E e \in Claves :
          movimientos = {} /\ CrearMovimiento(TRUE, 1, e, "entrada", 1, 0, 1)
    \/ CrearOrden(TRUE, 1, [numero_orden |-> "A"])
    \/ \E o \in Claves, e \in Claves :
          usados = {} /\ CrearUsado(TRUE, 1, o, e, 1, 0)
    \/ \E o \in Claves : CrearAgenda(1, <<o>>)
    \/ \E a \in Claves, o \in Claves : ModificarAgenda(a, <<o>>)
    \/ \E e \in Claves : BorrarElemento(e)
    \/ \E o \in Claves : BorrarOrden(o)

SpecBorrado == InitTaller /\ [][NextBorrado]_vars

\* ------------------------------------------------------------------ claims

\* C1: after any sequence of saves of User (creating saves and updating
\* saves, through any object in memory), every stored User has exactly one
\* PerfilUsuario, whose rol is 'trabajador' and whose activo is true; and
\* every stored PerfilUsuario is the profile of a stored User.
C1_UnPerfilTrabajador ==
    /\ \A u \in usuarios :
          \E p \in perfiles :
              /\ PerfilesDe(perfiles, u) = {p}
              /\ p.rol = "trabajador"
              /\ p.activo = TRUE
    /\ \A p \in perfiles : p.user \in usuarios

\* C1's case: a user created earlier, fetched into a fresh object, has just
\* been saved again, and another user exists beside it.
C1_Witness ==
    /\ ultima.op = "GuardarUsuario"
    /\ ultima.res = OK
    /\ Cardinality(usuarios) >= 2
    /\ \E i \in Insts :
          /\ inst[i].pk = <<ultima.user>>
          /\ inst[i].perfilusuario # << >>
          /\ inst[i].perfilusuario[1] \in perfiles

C3_ValorTotal ==
    /\ \A e \in elementos :
          /\ e.precio_compra # << >> =>
                valor_total_stock(e) = e.cantidad_actual * e.precio_compra[1]
          /\ e.precio_compra = << >> => valor_total_stock(e) = 0
    /\ ultima.op = "ConsultarElemento" =>
          ultima.valor_total_stock =
              IF ultima.obj.precio_compra = << >> THEN 0
              ELSE ultima.obj.cantidad_actual * ultima.obj.precio_compra[1]

\* C3's case: an item with a quantity of 2 or more, a purchase price set and
\* not zero, and another selling price, has just been read.
C3_Witness ==
    /\ ultima.op = "ConsultarElemento"
    /\ ultima.obj.cantidad_actual >= 2
    /\ ultima.obj.precio_compra # << >>
    /\ ultima.obj.precio_compra[1] >= 2
    /\ ultima.obj.precio_venta # ultima.obj.precio_compra
    /\ ultima.valor_total_stock >= 4

\* C3's other cases: a purchase price of zero, and none.
C3_WitnessCero ==
    /\ ultima.op = "ConsultarElemento"
    /\ ultima.obj.cantidad_actual >= 1
    /\ ultima.obj.precio_compra = <<0>>

\* C4: the subtotal of every line is cantidad_usada times precio_unitario,
\* the line's own fields, whatever the precio_venta and the cantidad_actual
\* of the item it refers to are now.
C4_Subtotal ==
    /\ \A l \in usados : subtotal(l) = l.cantidad_usada * l.precio_unitario
    /\ ultima.op = "ConsultarUsado" =>
          ultima.subtotal = ultima.obj.cantidad_usada * ultima.obj.precio_unitario

\* C4's case: a line of 2 units at a unit price of 2 has just been read,
\* after the item's selling price and quantity were changed to other values.
C4_Witness ==
    /\ ultima.op = "ConsultarUsado"
    /\ ultima.obj.cantidad_usada = 2
    /\ ultima.obj.precio_unitario = 2
    /\ ultima.subtotal = 4
    /\ \E e \in elementos :
          /\ e.id = ultima.obj.elemento
          /\ e.precio_venta = <<1>>
          /\ e.cantidad_actual = 1

\* C5 as stated: in every reachable state the estado of every stored
\* OrdenTrabajo is one of the seven choices.
C5_Original == \A o \in ordenes : o.estado \in ESTADO_CHOICES

C5_Paso ==
    (ultima'.op \in {"CrearOrden", "ModificarOrden"} /\ ultima'.validar) =>
        /\ ultima'.obj.estado \notin ESTADO_CHOICES =>
              /\ ultima'.res = ValidationError
              /\ ordenes' = ordenes
        /\ ultima'.res = OK =>
              /\ ultima'.obj \in ordenes'
              /\ ultima'.obj.estado \in ESTADO_CHOICES

C5_Nueva ==
    \A o \in ordenes' :
        (o.id \notin Ids(ordenes) /\ DOMAIN ultima'.dado = {"numero_orden"})
            => o.estado = "ingreso"

\* C5, amended: a save that runs full_clean() first stores an OrdenTrabajo
\* only with one of the seven choices as estado; given any other value it
\* raises ValidationError and leaves the stored orders unchanged; and an
\* order created with no estado given starts in 'ingreso'.
C5_Validado == [][C5_Paso /\ C5_Nueva]_vars

\* C5's case: a validated save of a stored order with an estado that is no
\* choice has just been refused, the order still in the estado it had.
C5_Witness ==
    /\ ultima.op = "ModificarOrden"
    /\ ultima.validar
    /\ ultima.obj.estado = "otro"
    /\ ultima.res = ValidationError
    /\ ultima.antes \in ordenes
    /\ ultima.antes.estado = "terminado"

\* C9 as stated: every change of a stored order's estado moves to the next
\* state of the workflow or to 'cancelado', and 'entregado' and 'cancelado'
\* are never left.
C9_Original ==
    [][\A o \in ordenes : \A n \in ordenes' :
          (n.id = o.id /\ n.estado # o.estado) =>
              /\ ~ Terminal(o.estado)
              /\ n.estado \in {Siguiente(o.estado), "cancelado"}]_vars

\* C9, amended: an order starts in 'ingreso', and a validated save may move
\* its estado from any value to any of the seven choices: the save is
\* accepted and the estado stored whatever the estado was before, backwards,
\* skipping states, or out of 'entregado' and 'cancelado'.
C9_CualquierCambio ==
    [][/\ (/\ ultima'.op = "ModificarOrden"
           /\ ultima'.validar
           /\ ultima'.obj.estado \in ESTADO_CHOICES) =>
              /\ ultima'.res = OK
              /\ ultima'.obj \in ordenes'
       /\ \A o \in ordenes' :
             (o.id \notin Ids(ordenes) /\ ~ ("estado" \in DOMAIN ultima'.dado))
                 => o.estado = "ingreso"]_vars

\* C9's case: a validated save has just moved an order out of 'entregado'
\* back to 'ingreso'.
C9_Witness ==
    /\ ultima.op = "ModificarOrden"
    /\ ultima.validar
    /\ ultima.res = OK
    /\ ultima.antes.estado = "entregado"
    /\ ultima.obj.estado = "ingreso"
    /\ ultima.obj \in ordenes

\* No two stored items share a codigo, no two stored orders a numero_orden.
Unicos ==
    /\ \A e1, e2 \in elementos : e1.codigo = e2.codigo => e1 = e2
    /\ \A o1, o2 \in ordenes : o1.numero_orden = o2.numero_orden => o1 = o2

\* Every stored quantity is within its validator.
NoNegativos ==
    /\ \A e \in elementos : e.cantidad_actual >= 0 /\ e.stock_minimo >= 0
    /\ \A m \in movimientos : m.cantidad >= 1
    /\ \A l \in usados : l.cantidad_usada >= 1

\* C6 as stated: in every reachable state every stored quantity is within
\* its validator and the codes are unique.
C6_Original == NoNegativos /\ Unicos

\* The object of the last operation breaks a validator of its model, or has
\* the code of another stored row.
Invalido(u) ==
    CASE u.op \in {"CrearElemento", "ModificarElemento"} ->
            \/ u.obj.cantidad_actual < 0
            \/ u.obj.stock_minimo < 0
            \/ \E q \in elementos : q.id # u.obj.id /\ q.codigo = u.obj.codigo
      [] u.op = "CrearOrden" ->
            \E q \in ordenes : q.id # u.obj.id
                               /\ q.numero_orden = u.obj.numero_orden
      [] u.op = "CrearMovimiento" -> u.obj.cantidad < 1
      [] u.op = "CrearUsado" -> u.obj.cantidad_usada < 1
      [] OTHER -> FALSE

Repetido(u) ==
    CASE u.op \in {"CrearElemento", "ModificarElemento"} ->
            \E q \in elementos : q.id # u.obj.id /\ q.codigo = u.obj.codigo
      [] u.op = "CrearOrden" ->
            \E q \in ordenes : q.id # u.obj.id
                               /\ q.numero_orden = u.obj.numero_orden
      [] OTHER -> FALSE

C6_Paso ==
    /\ (ultima'.validar /\ Invalido(ultima')) =>
          /\ ultima'.res = ValidationError
          /\ taller' = taller
    /\ (ultima'.validar /\ ultima'.res = OK) =>
          CASE ultima'.op \in {"CrearElemento", "ModificarElemento"} ->
                  /\ ultima'.obj \in elementos'
                  /\ ultima'.obj.cantidad_actual >= 0
                  /\ ultima'.obj.stock_minimo >= 0
            [] ultima'.op = "CrearMovimiento" ->
                  ultima'.obj \in movimientos' /\ ultima'.obj.cantidad >= 1
            [] ultima'.op = "CrearUsado" ->
                  ultima'.obj \in usados' /\ ultima'.obj.cantidad_usada >= 1
            [] OTHER -> TRUE
    /\ (~ ultima'.validar /\ Repetido(ultima')) =>
          /\ ultima'.res = IntegrityError
          /\ taller' = taller

\* C6, amended: a save that runs full_clean() first refuses, with
\* ValidationError and the stored rows unchanged, an ElementoMecanico with a
\* negative cantidad_actual or stock_minimo, a MovimientoStock with
\* cantidad < 1, an ElementoUsadoOrden with cantidad_usada < 1 and a row
\* with the codigo or numero_orden of another; a save without full_clean()
\* is refused only for the repeated code, by the database; so the codes are
\* unique in every reachable state, and the quantities of every row whose
\* save ran full_clean() are within their validators.
C6_Validado == [](Unicos) /\ [][C6_Paso]_vars

\* C6's case: a validated save of a stored item with a negative quantity has
\* just been refused while a second item, a movement and a line are stored.
C6_Witness ==
    /\ ultima.op = "ModificarElemento"
    /\ ultima.validar
    /\ ultima.obj.cantidad_actual < 0
    /\ ultima.res = ValidationError
    /\ Cardinality(elementos) = 2
    /\ movimientos # {}
    /\ usados # {}
    /\ NoNegativos

\* The movement recorded just before m among those of m's item.
Anterior(m) ==
    LET previos == {q \in movimientos : q.elemento = m.elemento /\ q.id < m.id}
    IN  {q \in previos : \A x \in previos : x.id <= q.id}

\* C7 as stated: every stored MovimientoStock records as stock_anterior the
\* item's quantity immediately before the movement and as stock_nuevo the
\* item's quantity immediately after it, and the stock_anterior of each
\* movement is the stock_nuevo of the movement of the same item before it.
C7_Original ==
    \A m \in movimientos :
        /\ \A o \in obs :
              o.mov = m.id =>
                  /\ m.stock_anterior = o.antes
                  /\ m.stock_nuevo = o.despues
        /\ \A q \in Anterior(m) : m.stock_anterior = q.stock_nuevo

\* A caller's step from one position to another.
Pasa(c, de, a) == caller[c].pc = de /\ caller'[c].pc = a

C8_Paso ==
    \A c \in Callers :
        /\ caller[c].pc = "leido" /\ caller'[c] # caller[c] =>
              /\ Pasa(c, "leido", "escrito")
              /\ ultima'.res = OK
              /\ Cantidad(elementos', caller[c].obj[1].id)
                    = caller[c].obj[1].cantidad_actual + caller[c].delta
        /\ caller[c].pc = "escrito" /\ caller'[c] # caller[c] =>
              /\ Pasa(c, "escrito", "libre")
              /\ ultima'.res = OK
              /\ \E m \in movimientos' \ movimientos :
                    /\ m.elemento = caller[c].obj[1].id
                    /\ m.stock_anterior = caller[c].obj[1].cantidad_actual
                    /\ m.stock_nuevo = m.stock_anterior + caller[c].delta

\* C8: nothing guards a movement against another on the same item: whatever
\* quantity is stored by then, a caller's save of the item is accepted and
\* overwrites it with the stock_nuevo computed from the quantity the caller
\* read, and its MovimientoStock is accepted with the stock_anterior it read.
C8_SinGuarda == [][C8_Paso]_vars

\* C8's case, the lost update: two callers have finished, their two
\* movements of the same item record the same stock_anterior, and the
\* item's quantity is not the initial quantity (0, the default) plus the two
\* recorded changes.
C8_Witness ==
    /\ \A c \in Callers : caller[c].pc = "libre"
    /\ \E m1, m2 \in movimientos :
          /\ m1.id < m2.id
          /\ movimientos = {m1, m2}
          /\ m1.elemento = m2.elemento
          /\ m1.stock_anterior = m2.stock_anterior
          /\ Cantidad(elementos, m1.elemento) \in {m1.stock_nuevo, m2.stock_nuevo}
          /\ Cantidad(elementos, m1.elemento)
                # 0 + (m1.stock_nuevo - m1.stock_anterior)
                    + (m2.stock_nuevo - m2.stock_anterior)

\* Every reference of every stored row is to a stored row.
Integridad ==
    /\ \A p \in perfiles : p.user \in usuarios
    /\ \A e \in elementos : e.usuario_creacion \in usuarios
    /\ \A m \in movimientos :
          m.elemento \in Ids(elementos) /\ m.usuario \in usuarios
    /\ \A o \in ordenes : o.usuario_creacion \in usuarios
    /\ \A l \in usados :
          /\ l.orden \in Ids(ordenes)
          /\ l.elemento \in Ids(elementos)
          /\ l.usuario \in usuarios
    /\ \A a \in agenda :
          /\ a.usuario_creacion \in usuarios
          /\ a.orden_generada # << >> => a.orden_generada[1] \in Ids(ordenes)

\* At most one visit refers to any order.
UnaVisitaPorOrden ==
    \A a1, a2 \in agenda :
        (a1.orden_generada # << >> /\ a1.orden_generada = a2.orden_generada)
            => a1 = a2

C10_Paso ==
    /\ (ultima'.op = "BorrarUsuario" /\ ultima'.res = OK) =>
          /\ ultima'.pk \notin usuarios'
          /\ PerfilesDe(perfiles', ultima'.pk) = {}
          /\ PerfilesDe(perfiles, ultima'.pk) # {}
    /\ ultima'.op = "BorrarElemento" =>
          IF \E l \in usados : l.elemento = ultima'.pk
          THEN /\ ultima'.res = ProtectedError
               /\ taller' = taller
          ELSE /\ ultima'.res = OK
               /\ ultima'.pk \notin Ids(elementos')
               /\ movimientos' = {m \in movimientos : m.elemento # ultima'.pk}
               /\ usados' = usados
    /\ ultima'.op = "BorrarOrden" =>
          /\ ultima'.res = OK
          /\ ultima'.pk \notin Ids(ordenes')
          /\ usados' = {l \in usados : l.orden # ultima'.pk}
          /\ Ids(agenda') = Ids(agenda)
          /\ \A a \in agenda' :
                a.orden_generada =
                    IF Fila(agenda, a.id).orden_generada = <<ultima'.pk>>
                    THEN << >>
                    ELSE Fila(agenda, a.id).orden_generada

\* C10: in every reachable state every reference of a stored row is to a
\* stored row and at most one visit refers to any order; deleting a User
\* removes its PerfilUsuario; deleting an ElementoMecanico is refused, with
\* nothing changed, while a line refers to it, and otherwise removes its
\* movements; deleting an OrdenTrabajo removes its lines and sets to NULL
\* the orden_generada of the visit that refers to it, keeping the visit.
C10_Borrado == [](Integridad /\ UnaVisitaPorOrden) /\ [][C10_Paso]_vars

\* C10's case: an order has just been deleted that had a line and a visit
\* (lines are removed and orden_generada is set to NULL by no other
\* operation here); the visit is stored with orden_generada NULL, no line
\* is left, and the item of the line and its movement are stored.
C10_Witness ==
    /\ ultima.op = "BorrarOrden"
    /\ usados = {}
    /\ sig.usado > 1
    /\ \E a \in agenda : a.orden_generada = << >>
    /\ elementos # {}
    /\ movimientos # {}

====
